---- MODULE Spec2Model ----
(***************************************************************************)
(* A model of the RAG document question-answering core:                    *)
(*   rag-doc-qa/app/ingestor.py   chunk_text, _ensure_index, ingest_pdf    *)
(*   rag-doc-qa/app/retriever.py  _get_model, retrieve                     *)
(*   app/generator.py             _get_client, _build_prompt,              *)
(*                                generate_answer                          *)
(*   app/pipeline.py              ask                                      *)
(*                                                                         *)
(* A text is modelled by its length: a slice text[a:b] is the pair of its  *)
(* normalised bounds (lo, hi), so a chunk is [page, lo, hi].               *)
(***************************************************************************)
EXTENDS Integers, Sequences, FiniteSets, TLC

(***************************************************************************)
(* Program constants.                                                      *)
(***************************************************************************)
CHUNK_SIZE == 500
CHUNK_OVERLAP == 50
BATCH_SIZE == 500
TOP_K == 5
max_retries == 3
BACKOFF_UNIT == 20

(***************************************************************************)
(* Bounds of the model.                                                    *)
(***************************************************************************)
\* chunk_text called on its own: page lengths, window and overlap ranges
MaxLen == 6
MaxW == 3
MaxO == 3
MaxPagesC == 2
\* generate_answer called on its own: how many chunks it is given
MaxGenChunks == 2
\* threads that use the lazy globals at the same time
NThreads == 2
\* pages of the PDFs of SpecIngest
MaxPagesBig == 2
\* the process: calls made, and items of a query answer
MaxOps == 2
MaxHits == 2

VARIABLES
    \* ---- chunk_text (ingestor.py 51-67) ----
    ck_pc,      \* "idle" | "for" | "while" | "done"
    ck_pages,   \* the pages argument: sequence of [page, len]
    ck_W,       \* chunk_size argument
    ck_O,       \* overlap argument
    ck_pidx,    \* index of the page the for loop is at (0 before the first)
    ck_start,   \* the local start
    ck_chunks,  \* the local chunks: sequence of [page, lo, hi]
    \* ---- process-wide state ----
    api_key,    \* os.getenv("GEMINI_API_KEY"): "unset" | "empty" | "placeholder" | "valid"
    handle,     \* the lazy module globals ingestor._model, retriever._model and
                \* generator._client: 0 is None, else the number of the instance
    inits,      \* how many times each of them has been constructed and assigned
    log,        \* backend I/O and sleeps of the running top-level call, in order
    used_model, \* the model object ingest_pdf and retrieve last encoded with
    \* ---- the vector index backend ----
    index_exists, \* whether the index "documents" exists
    store,      \* the vectors upserted into it, in the order they arrived
    uuids,      \* identifiers uuid.uuid4() has handed out
    \* ---- ingest_pdf (ingestor.py 96-149) ----
    in_pc,      \* "idle" | "extract" | "chunking" | "embed" | "ensure" | "upsert"
                \*   | "returned" | "raised"
    in_doc,     \* the PDF at pdf_path: per page [len, ws]
    in_filename,\* the filename argument
    in_chunks,  \* the local chunks
    in_vectors, \* the local vectors
    in_start,   \* the loop variable start of the upsert loop
    in_ret,     \* the value returned
    in_err,     \* the exception raised
    \* ---- generate_answer (generator.py 64-97) ----
    g_pc,       \* "idle" | "client" | "try" | "returned" | "raised"
    g_question, \* the question argument
    g_chunks,   \* the chunks argument
    g_prompt,   \* the local prompt
    g_attempt,  \* the loop variable attempt
    g_hist,     \* what the backend answered to each generate_content call
    g_ret,      \* the value returned
    g_err,      \* the exception raised
    \* ---- retrieve (retriever.py 31-66) ----
    rt_pc,      \* "idle" | "embed" | "query" | "returned" | "raised"
    rt_question,\* the question argument
    rt_top_k,   \* the top_k argument
    rt_ret,     \* the value returned: the local chunks
    rt_err,     \* the exception raised
    \* ---- ask (pipeline.py 12-38) ----
    ask_pc,     \* "idle" | "retrieving" | "generating" | "returned" | "raised"
    ask_question, \* the question argument
    ask_sources,\* the local sources
    ask_calls,  \* the functions ask has called, in call order
    ask_ret,    \* the value returned
    ask_err,    \* the exception raised
    ops,        \* top-level calls made so far in the process
    \* ---- threads making a first use of a lazy global ----
    th          \* per thread: where it is in the getter, which global, what it got

ckVars == <<ck_pc, ck_pages, ck_W, ck_O, ck_pidx, ck_start, ck_chunks>>
clientVars == <<api_key, handle, inits>>
indexVars == <<index_exists, store, uuids>>
ingVars == <<in_pc, in_doc, in_filename, in_chunks, in_vectors, in_start, in_ret, in_err>>
rtVars == <<rt_pc, rt_question, rt_top_k, rt_ret, rt_err>>
askVars == <<ask_pc, ask_question, ask_sources, ask_calls, ask_ret, ask_err, ops>>
genVars == <<g_pc, g_question, g_chunks, g_prompt, g_attempt, g_hist, g_ret, g_err>>

vars == <<ckVars, clientVars, log, used_model, indexVars, ingVars, rtVars, askVars,
          genVars, th>>

Min(a, b) == IF a < b THEN a ELSE b
Max(a, b) == IF a > b THEN a ELSE b

\* ceil(a / b) for a >= 0, b > 0
CeilDiv(a, b) == (a + b - 1) \div b

(***************************************************************************)
(* Python slicing of a string of length n: the bound i of text[..i..]      *)
(* counts from the end when negative and is clamped to 0..n.               *)
(***************************************************************************)
SliceBound(n, i) ==
    IF i < 0 THEN Max(n + i, 0) ELSE Min(i, n)

\* text[start:end] of the page, as the chunk record chunk_text appends
SliceChunk(pg, start, end) ==
    LET lo == SliceBound(pg.len, start)
        hi == SliceBound(pg.len, end)
    IN  [page |-> pg.page, lo |-> lo, hi |-> Max(lo, hi)]

\* the while condition of chunk_text
WhileCondOffByOverlap(start, n, overlap) == start + overlap < n
WhileCond(start, n, overlap) == start < n

\* start += chunk_size - overlap
AdvanceByWindow(start, chunk_size, overlap) == start + chunk_size
Advance(start, chunk_size, overlap) == start + (chunk_size - overlap)

(***************************************************************************)
(* chunk_text, one loop step per action.                                   *)
(***************************************************************************)
ChunkIdle ==
    /\ ck_pc = "idle"
    /\ ck_pages = <<>>
    /\ ck_W = 0
    /\ ck_O = 0
    /\ ck_pidx = 0
    /\ ck_start = 0
    /\ ck_chunks = <<>>

\* the frame of chunk_text is gone once the caller has its value
ChunkLeave ==
    /\ ck_pc' = "idle"
    /\ ck_pages' = <<>>
    /\ ck_W' = 0
    /\ ck_O' = 0
    /\ ck_pidx' = 0
    /\ ck_start' = 0
    /\ ck_chunks' = <<>>

\* entry of chunk_text(pages, chunk_size, overlap): chunks = []
ChunkEnter(pages, chunk_size, overlap) ==
    /\ ck_pc' = "for"
    /\ ck_pages' = pages
    /\ ck_W' = chunk_size
    /\ ck_O' = overlap
    /\ ck_pidx' = 0
    /\ ck_start' = 0
    /\ ck_chunks' = <<>>

\* for page_info in pages: ... start = 0   (or the return after the last page)
ChunkFor ==
    /\ ck_pc = "for"
    /\ IF ck_pidx < Len(ck_pages)
       THEN /\ ck_pidx' = ck_pidx + 1
            /\ ck_start' = 0
            /\ ck_pc' = "while"
       ELSE /\ ck_pc' = "done"
            /\ UNCHANGED <<ck_pidx, ck_start>>
    /\ UNCHANGED <<ck_pages, ck_W, ck_O, ck_chunks>>
    /\ UNCHANGED <<clientVars, log, used_model, indexVars, ingVars, rtVars, askVars, genVars, th>>

\* while start < len(text): one iteration, or the exit of the while loop
ChunkWhile ==
    /\ ck_pc = "while"
    /\ LET pg == ck_pages[ck_pidx]
       IN  IF WhileCond(ck_start, pg.len, ck_O)
           THEN /\ ck_chunks' = Append(ck_chunks,
                                  SliceChunk(pg, ck_start, ck_start + ck_W))
                /\ ck_start' = Advance(ck_start, ck_W, ck_O)
                /\ ck_pc' = "while"
           ELSE /\ ck_pc' = "for"
                /\ UNCHANGED <<ck_chunks, ck_start>>
    /\ UNCHANGED <<ck_pages, ck_W, ck_O, ck_pidx>>
    /\ UNCHANGED <<clientVars, log, used_model, indexVars, ingVars, rtVars, askVars, genVars, th>>

(***************************************************************************)
(* The log of backend I/O: one record per call to a backend or sleep.       *)
(***************************************************************************)
LlmCall(n, answer) == [op |-> "llm", n |-> n, answer |-> answer]
Sleep(secs) == [op |-> "sleep", secs |-> secs]

EventsOf(kind) == SelectSeq(log, LAMBDA e : e.op = kind)
Count(kind) == Len(EventsOf(kind))

(***************************************************************************)
(* The lazy module globals: _get_model (ingestor.py 27-33, retriever.py     *)
(* 17-24) and _get_client (generator.py 18-32).                            *)
(***************************************************************************)
IngModel == "ingestor._model"
RetModel == "retriever._model"
GenClient == "generator._client"
Handles == {IngModel, RetModel, GenClient}

NeverUsed == [f \in {"ingest_pdf", "retrieve"} |-> 0]

NothingLoaded ==
    /\ handle = [h \in Handles |-> 0]
    /\ inits = [h \in Handles |-> 0]
    /\ used_model = NeverUsed

\* if _model is None / if _client is None
IsNone(h) == handle[h] = 0

\* SentenceTransformer objects constructed so far in the process
ModelsLoaded == inits[IngModel] + inits[RetModel]

\* the object a construction yields: a new one each time, numbered per class
NewInstance(h) ==
    IF h = GenClient THEN inits[GenClient] + 1 ELSE ModelsLoaded + 1

\* _model = SentenceTransformer(...) / _client = genai.Client(...)
Construct(h) ==
    /\ handle' = [handle EXCEPT ![h] = NewInstance(h)]
    /\ inits' = [inits EXCEPT ![h] = @ + 1]

\* a whole call of the getter by the only running thread (for _get_client,
\* past the check of the key): construct when None, and return the global
GetLazy(h) ==
    IF IsNone(h) THEN Construct(h) ELSE UNCHANGED <<handle, inits>>

\* what that call returns
Got(h) == handle'[h]

\* the threads of SpecLazy; the other specifications run one thread, whose
\* position is the pc of the function it is in
Threads == 1..NThreads

ThreadsIdle == th = <<>>

(***************************************************************************)
(* _get_client (generator.py 21-32): the check of the key.                 *)
(***************************************************************************)
\* not api_key or api_key == "your-gemini-api-key-here"
KeyRejected(key) == key \in {"unset", "empty", "placeholder"}

GenIdle ==
    /\ g_pc = "idle"
    /\ g_question = "none"
    /\ g_chunks = <<>>
    /\ g_prompt = <<>>
    /\ g_attempt = 0
    /\ g_hist = <<>>
    /\ g_ret = "none"
    /\ g_err = "none"

(***************************************************************************)
(* _build_prompt (generator.py 39-57).  The prompt is the sequence of its  *)
(* parts; "blank" is the empty line a "\n\n" leaves between two parts.     *)
(***************************************************************************)
Blank == [seg |-> "blank"]

\* enumerate(chunks, start=1) numbers the parts from 1; numbered from 0 they
\* would be ContextPartFromZero
ContextPartFromZero(i, chunk) ==
    << [seg |-> "header", n |-> i - 1, page |-> chunk.page, filename |-> chunk.filename],
       [seg |-> "text", text |-> chunk.text] >>

\* f"[Chunk {i} | Page {page} | File: {filename}]\n{text}"
ContextPart(i, chunk) ==
    << [seg |-> "header", n |-> i, page |-> chunk.page, filename |-> chunk.filename],
       [seg |-> "text", text |-> chunk.text] >>

RECURSIVE JoinParts(_, _)
\* "\n\n".join(context_parts), the parts numbered from i
JoinParts(chunks, i) ==
    IF i > Len(chunks) THEN <<>>
    ELSE IF i = Len(chunks) THEN ContextPart(i, chunks[i])
    ELSE ContextPart(i, chunks[i]) \o <<Blank>> \o JoinParts(chunks, i + 1)

_build_prompt(question, chunks) ==
    << [seg |-> "instruction"], Blank, [seg |-> "context"] >>
    \o JoinParts(chunks, 1)
    \o << Blank, [seg |-> "question", question |-> question], Blank,
          [seg |-> "answer"] >>

(***************************************************************************)
(* generate_answer (generator.py 64-97).                                   *)
(***************************************************************************)
\* what client.models.generate_content can do: answer, or raise a
\* rate-limit error (its message starts with the status 429), or raise
\* another error whose message happens to hold the digits 429, or raise
\* another error whose message does not
LlmOutcomes == {"ok", "rate_limit", "other_with_429", "other"}

\* "429" in str(e)
Has429(e) == e \in {"rate_limit", "other_with_429"}

\* "429" in str(e) and attempt < max_retries - 1
RetriesAlsoOnLastAttempt(e, attempt) == Has429(e) /\ attempt < max_retries
Retries(e, attempt) == Has429(e) /\ attempt < max_retries - 1

\* wait = 20 * (attempt + 1)
WaitConstant(attempt) == BACKOFF_UNIT
Wait(attempt) == BACKOFF_UNIT * (attempt + 1)

\* entry of generate_answer(question, chunks)
GenEnter(question, chunks) ==
    /\ g_pc' = "client"
    /\ g_question' = question
    /\ g_chunks' = chunks
    /\ g_prompt' = <<>>
    /\ g_attempt' = 0
    /\ g_hist' = <<>>
    /\ g_ret' = "none"
    /\ g_err' = "none"

\* client = _get_client(); prompt = _build_prompt(question, chunks)
GenGetClient ==
    /\ g_pc = "client"
    /\ IF IsNone(GenClient) /\ KeyRejected(api_key)
       THEN /\ g_pc' = "raised"
            /\ g_err' = "ValueError"
            /\ UNCHANGED <<handle, inits, g_prompt>>
       ELSE /\ GetLazy(GenClient)
            /\ g_prompt' = _build_prompt(g_question, g_chunks)
            /\ g_pc' = "try"
            /\ UNCHANGED g_err
    /\ UNCHANGED <<api_key, log, g_question, g_chunks, g_attempt, g_hist, g_ret>>
    /\ UNCHANGED <<ckVars, used_model, indexVars, ingVars, rtVars, askVars, th>>

\* one iteration of for attempt in range(max_retries): the backend call, then
\* return response.text, or sleep and go round again, or re-raise
GenAttempt ==
    /\ g_pc = "try"
    /\ \E out \in LlmOutcomes :
          LET n == Len(g_hist) + 1
              called == Append(log, LlmCall(n, out))
          IN  /\ g_hist' = Append(g_hist, out)
              /\ IF out = "ok"
                 THEN /\ g_pc' = "returned"
                      /\ g_ret' = [text_of_call |-> n, prompt |-> g_prompt]
                      /\ log' = called
                      /\ UNCHANGED <<g_err, g_attempt>>
                 ELSE IF Retries(out, g_attempt)
                 THEN /\ log' = Append(called, Sleep(Wait(g_attempt)))
                      /\ IF g_attempt + 1 < max_retries
                         THEN /\ g_attempt' = g_attempt + 1
                              /\ g_pc' = "try"
                              /\ UNCHANGED g_ret
                         ELSE \* the loop is exhausted: the function ends
                              \* without a return statement
                              /\ g_pc' = "returned"
                              /\ g_ret' = "None"
                              /\ UNCHANGED g_attempt
                      /\ UNCHANGED g_err
                 ELSE /\ g_pc' = "raised"
                      /\ g_err' = out
                      /\ log' = called
                      /\ UNCHANGED <<g_ret, g_attempt>>
    /\ UNCHANGED <<clientVars, g_question, g_chunks, g_prompt>>
    /\ UNCHANGED <<ckVars, used_model, indexVars, ingVars, rtVars, askVars, th>>

(***************************************************************************)
(* The vector index backend.                                               *)
(***************************************************************************)
IndexEmpty ==
    /\ index_exists = FALSE
    /\ store = <<>>
    /\ uuids = 0

\* the status the backend can answer POST /index/create with: created
\* (200, 201) or already exists (409), or, from the server or a proxy in
\* front of it, a 3xx that requests has no Location to follow for (304), a
\* client error (404) or a failure of the server (500)
CreateStatuses ==
    (IF index_exists THEN {409} ELSE {200, 201}) \cup {304, 404, 500}

\* the statuses of success of HTTP
Is2xx(status) == status >= 200 /\ status < 300

\* resp.raise_for_status() raises for a 4xx or 5xx status
RaisesForStatus(status) == status >= 400 /\ status < 600

\* if resp.status_code == 409: return; resp.raise_for_status()
EnsureIndexRaisesOn409(status) == RaisesForStatus(status)
EnsureIndexRaises(status) == status # 409 /\ RaisesForStatus(status)

Embedded(by, model, n) == [op |-> "embed", by |-> by, model |-> model, n |-> n]
CreateIndex(status) == [op |-> "create_index", status |-> status]
\* index.upsert(vectors[lo:hi])
Upsert(lo, hi, ok) == [op |-> "upsert", lo |-> lo, hi |-> hi, ok |-> ok]

(***************************************************************************)
(* extract_text_from_pdf (ingestor.py 39-48): a page of the PDF is its text *)
(* length and whether the text is whitespace only (ws); the pages kept are  *)
(* those with text.strip() non-empty, numbered by their place in the PDF.   *)
(***************************************************************************)
extract_text_from_pdf(doc) ==
    LET kept == SelectSeq([i \in 1..Len(doc) |-> i], LAMBDA i : ~doc[i].ws)
    IN  [k \in 1..Len(kept) |-> [page |-> kept[k], len |-> doc[kept[k]].len]]

\* the PDFs with at most maxPages pages, each blank or with text of a length
\* in lens
Docs(lens, maxPages) ==
    LET RawPages == {[len |-> 0, ws |-> TRUE], [len |-> 2, ws |-> TRUE]}
                        \cup {[len |-> l, ws |-> FALSE] : l \in lens}
    IN  UNION { [1..n -> RawPages] : n \in 0..maxPages }

(***************************************************************************)
(* ingest_pdf (ingestor.py 96-149).                                        *)
(***************************************************************************)
IngestIdle ==
    /\ in_pc = "idle"
    /\ in_doc = <<>>
    /\ in_filename = "none"
    /\ in_chunks = <<>>
    /\ in_vectors = <<>>
    /\ in_start = 0
    /\ in_ret = "none"
    /\ in_err = "none"

\* not pages / not chunks
IsEmptyNever(xs) == FALSE
IsEmpty(xs) == Len(xs) = 0

\* vectors[start : start + BATCH_SIZE], as the bounds of the slice
BatchEndShort(start, n) == SliceBound(n, start + BATCH_SIZE - 1)
BatchEnd(start, n) == SliceBound(n, start + BATCH_SIZE)

\* range(0, len(vectors), BATCH_SIZE): the next start
NextStart(start) == start + BATCH_SIZE

\* model.encode(texts)[i]: the embedding of a text is a function of the text
Embedding(chunk) == [of |-> <<chunk.page, chunk.lo, chunk.hi>>]

\* records whose meta takes the place of the chunk in the list for its page
VectorsPageByPlace(chunks, filename, firstId) ==
    [i \in 1..Len(chunks) |->
        [id |-> firstId + i,
         vector |-> Embedding(chunks[i]),
         meta |-> [text |-> <<chunks[i].page, chunks[i].lo, chunks[i].hi>>,
                   page |-> i,
                   filename |-> filename]]]

\* the vectors ingest_pdf builds from its chunks (step 4)
Vectors(chunks, filename, firstId) ==
    [i \in 1..Len(chunks) |->
        [id |-> firstId + i,
         vector |-> Embedding(chunks[i]),
         meta |-> [text |-> <<chunks[i].page, chunks[i].lo, chunks[i].hi>>,
                   page |-> chunks[i].page,
                   filename |-> filename]]]

\* entry of ingest_pdf(pdf_path, filename), the PDF at pdf_path being doc
IngestEnter(doc, filename) ==
    /\ in_pc' = "extract"
    /\ in_doc' = doc
    /\ in_filename' = filename
    /\ in_chunks' = <<>>
    /\ in_vectors' = <<>>
    /\ in_start' = 0
    /\ in_ret' = "none"
    /\ in_err' = "none"

\* 1. pages = extract_text_from_pdf(pdf_path); if not pages: return 0;
\* else the call chunk_text(pages)
IngestExtract ==
    /\ in_pc = "extract"
    /\ LET pages == extract_text_from_pdf(in_doc)
       IN  IF IsEmpty(pages)
           THEN /\ in_pc' = "returned"
                /\ in_ret' = 0
                /\ UNCHANGED ckVars
           ELSE /\ in_pc' = "chunking"
                /\ ChunkEnter(pages, CHUNK_SIZE, CHUNK_OVERLAP)
                /\ UNCHANGED in_ret
    /\ UNCHANGED <<in_doc, in_filename, in_chunks, in_vectors, in_start, in_err>>
    /\ UNCHANGED <<clientVars, log, used_model, indexVars, rtVars, askVars, genVars, th>>

\* 2. chunks = the value chunk_text returned; if not chunks: return 0
IngestChunked ==
    /\ in_pc = "chunking"
    /\ ck_pc = "done"
    /\ in_chunks' = ck_chunks
    /\ IF IsEmpty(ck_chunks)
       THEN /\ in_pc' = "returned"
            /\ in_ret' = 0
       ELSE /\ in_pc' = "embed"
            /\ UNCHANGED in_ret
    /\ ChunkLeave
    /\ UNCHANGED <<in_doc, in_filename, in_vectors, in_start, in_err>>
    /\ UNCHANGED <<clientVars, log, used_model, indexVars, rtVars, askVars, genVars, th>>

\* 3. model = _get_model(); embeddings = model.encode(texts);
\* 4. vectors = one record per chunk, each with a fresh uuid
IngestEmbed ==
    /\ in_pc = "embed"
    /\ GetLazy(IngModel)
    /\ used_model' = [used_model EXCEPT !["ingest_pdf"] = Got(IngModel)]
    /\ log' = Append(log, Embedded("ingest_pdf", Got(IngModel), Len(in_chunks)))
    /\ in_vectors' = Vectors(in_chunks, in_filename, uuids)
    /\ uuids' = uuids + Len(in_chunks)
    /\ in_pc' = "ensure"
    /\ UNCHANGED <<in_doc, in_filename, in_chunks, in_start, in_ret, in_err>>
    /\ UNCHANGED <<ckVars, api_key, index_exists, store, rtVars, askVars, genVars, th>>

\* 5. client = Endee(); _ensure_index(client); index = client.get_index(...)
IngestEnsureIndex ==
    /\ in_pc = "ensure"
    /\ \E status \in CreateStatuses :
          /\ log' = Append(log, CreateIndex(status))
          /\ index_exists' = (index_exists \/ Is2xx(status))
          /\ IF EnsureIndexRaises(status)
             THEN /\ in_pc' = "raised"
                  /\ in_err' = "HTTPError"
             ELSE /\ in_pc' = "upsert"
                  /\ UNCHANGED in_err
    /\ in_start' = 0
    /\ UNCHANGED <<in_doc, in_filename, in_chunks, in_vectors, in_ret>>
    /\ UNCHANGED <<ckVars, clientVars, used_model, store, uuids, rtVars, askVars, genVars, th>>

\* return len(vectors); a count of the upsert calls would be IngestCountBatches
IngestCountBatches(vectors) == CeilDiv(Len(vectors), BATCH_SIZE)
IngestCount(vectors) == Len(vectors)

\* index.upsert(batch) raises: nothing around the loop catches it, so the
\* exception leaves ingest_pdf; a loop that swallowed it would go on
UpsertFailureSwallowed == "upsert"
UpsertFailure == "raised"

\* for start in range(0, len(vectors), BATCH_SIZE): index.upsert(batch),
\* which the backend accepts or fails (it fails when there is no index to
\* store into); after the last batch
\* return len(vectors)
IngestUpsert ==
    /\ in_pc = "upsert"
    /\ IF in_start < Len(in_vectors)
       THEN LET end == BatchEnd(in_start, Len(in_vectors))
            IN  \E ok \in (IF index_exists THEN BOOLEAN ELSE {FALSE}) :
                  /\ log' = Append(log, Upsert(in_start, end, ok))
                  /\ IF ok
                     THEN /\ store' = store \o SubSeq(in_vectors, in_start + 1, end)
                          /\ in_start' = NextStart(in_start)
                          /\ UNCHANGED <<in_pc, in_err>>
                     ELSE /\ in_pc' = UpsertFailure
                          /\ in_err' = "upsert failed"
                          /\ UNCHANGED <<store, in_start>>
                  /\ UNCHANGED in_ret
       ELSE /\ in_pc' = "returned"
            /\ in_ret' = IngestCount(in_vectors)
            /\ UNCHANGED <<log, store, in_start, in_err>>
    /\ UNCHANGED <<in_doc, in_filename, in_chunks, in_vectors>>
    /\ UNCHANGED <<ckVars, clientVars, used_model, index_exists, uuids, rtVars, askVars, genVars, th>>

(***************************************************************************)
(* retrieve (retriever.py 31-66).                                          *)
(***************************************************************************)
RetrieveIdle ==
    /\ rt_pc = "idle"
    /\ rt_question = "none"
    /\ rt_top_k = 0
    /\ rt_ret = <<>>
    /\ rt_err = "none"

Query(top_k) == [op |-> "query", top_k |-> top_k]

\* the empty string, a text being the tuple that identifies it
EmptyText == <<>>

\* what the backend may hold out as one item of a query answer: a stored
\* vector's metadata with a similarity, or an item with neither key (keys
\* are the keys the item has; a field whose key is missing is never read)
NoMeta == [text |-> EmptyText, page |-> 0, filename |-> ""]

\* the similarity values the backend reports
Scores == {1, 2}

Hits ==
    { [keys |-> {"meta", "similarity"}, meta |-> store[i].meta, similarity |-> sc]
        : i \in 1..Len(store), sc \in Scores }
    \cup { [keys |-> {}, meta |-> NoMeta, similarity |-> 0] }

\* the answers index.query may give: any short sequence of such items
QueryAnswers == UNION { [1..n -> Hits] : n \in 0..MaxHits }

\* meta = item.get("meta", {}); meta.get("text", ""), meta.get("page", 0),
\* meta.get("filename", ""), item.get("similarity", 0.0)
FormatHit(item) ==
    LET has_meta == "meta" \in item.keys
    IN  [text |-> IF has_meta THEN item.meta.text ELSE EmptyText,
         page |-> IF has_meta THEN item.meta.page ELSE 0,
         filename |-> IF has_meta THEN item.meta.filename ELSE "",
         score |-> IF "similarity" \in item.keys THEN item.similarity ELSE 0]

\* entry of retrieve(question, top_k)
RetrieveEnter(question, top_k) ==
    /\ rt_pc' = "embed"
    /\ rt_question' = question
    /\ rt_top_k' = top_k
    /\ rt_ret' = <<>>
    /\ rt_err' = "none"

\* the frame of a call that is over
RetrieveLeave ==
    /\ rt_pc' = "idle"
    /\ rt_question' = "none"
    /\ rt_top_k' = 0
    /\ rt_ret' = <<>>
    /\ rt_err' = "none"

\* 1. model = _get_model(); query_vector = model.encode(question)
RetrieveEmbed ==
    /\ rt_pc = "embed"
    /\ GetLazy(RetModel)
    /\ used_model' = [used_model EXCEPT !["retrieve"] = Got(RetModel)]
    /\ log' = Append(log, Embedded("retrieve", Got(RetModel), 1))
    /\ rt_pc' = "query"
    /\ UNCHANGED <<rt_question, rt_top_k, rt_ret, rt_err>>
    /\ UNCHANGED <<ckVars, api_key, indexVars, ingVars, askVars, genVars, th>>

\* 2. client = Endee(); index = client.get_index(...);
\*    results = index.query(vector, top_k), which the backend answers or fails
\* 3. chunks = one record per item of results; return chunks
RetrieveQuery ==
    /\ rt_pc = "query"
    /\ log' = Append(log, Query(rt_top_k))
    /\ \/ /\ rt_pc' = "raised"
          /\ rt_err' = "query failed"
          /\ UNCHANGED rt_ret
       \/ \E results \in QueryAnswers :
            /\ rt_ret' = [i \in 1..Len(results) |-> FormatHit(results[i])]
            /\ rt_pc' = "returned"
            /\ UNCHANGED rt_err
    /\ UNCHANGED <<rt_question, rt_top_k>>
    /\ UNCHANGED <<ckVars, clientVars, used_model, indexVars, ingVars, askVars,
                   genVars, th>>

(***************************************************************************)
(* ask (pipeline.py 12-38).                                                *)
(***************************************************************************)
AskIdle ==
    /\ ask_pc = "idle"
    /\ ask_question = "none"
    /\ ask_sources = <<>>
    /\ ask_calls = <<>>
    /\ ask_ret = "none"
    /\ ask_err = "none"
    /\ ops = 0

AskLeave ==
    /\ ask_pc' = "idle"
    /\ ask_question' = "none"
    /\ ask_sources' = <<>>
    /\ ask_calls' = <<>>
    /\ ask_ret' = "none"
    /\ ask_err' = "none"

\* Step 1: sources = retrieve(question), when retrieve has returned or raised;
\* then the call generate_answer(question, sources)
AskRetrieved ==
    /\ ask_pc = "retrieving"
    /\ \/ /\ rt_pc = "returned"
          /\ ask_sources' = rt_ret
          /\ ask_calls' = Append(ask_calls, "generate_answer")
          /\ GenEnter(ask_question, rt_ret)
          /\ ask_pc' = "generating"
          /\ UNCHANGED ask_err
       \/ /\ rt_pc = "raised"
          /\ ask_pc' = "raised"
          /\ ask_err' = rt_err
          /\ UNCHANGED <<ask_sources, ask_calls, genVars>>
    /\ UNCHANGED <<ask_question, ask_ret, ops>>
    /\ UNCHANGED <<ckVars, clientVars, log, used_model, indexVars, ingVars, rtVars, th>>

\* return {"answer": answer, "sources": sources}; a return that left the
\* sources out would be AskResultNoSources
AskResultNoSources(answer, sources) == [answer |-> answer, sources |-> <<>>]
AskResult(answer, sources) == [answer |-> answer, sources |-> sources]

\* Step 2: answer = generate_answer(question, sources), when it has returned
\* or raised; return {"answer": answer, "sources": sources}
AskGenerated ==
    /\ ask_pc = "generating"
    /\ \/ /\ g_pc = "returned"
          /\ ask_ret' = AskResult(g_ret, ask_sources)
          /\ ask_pc' = "returned"
          /\ UNCHANGED ask_err
       \/ /\ g_pc = "raised"
          /\ ask_pc' = "raised"
          /\ ask_err' = g_err
          /\ UNCHANGED ask_ret
    /\ UNCHANGED <<ask_question, ask_sources, ask_calls, ops>>
    /\ UNCHANGED <<ckVars, clientVars, log, used_model, indexVars, ingVars, rtVars,
                   genVars, th>>

(***************************************************************************)
(* The process: one thread that calls ingest_pdf, retrieve and ask one      *)
(* after the other, as the UI does.                                         *)
(***************************************************************************)
Ended(pc) == pc \in {"idle", "returned", "raised"}

NoCallRunning ==
    /\ Ended(in_pc)
    /\ Ended(rt_pc)
    /\ Ended(ask_pc)
    /\ Ended(g_pc)
    /\ ck_pc = "idle"

GenLeave ==
    /\ g_pc' = "idle"
    /\ g_question' = "none"
    /\ g_chunks' = <<>>
    /\ g_prompt' = <<>>
    /\ g_attempt' = 0
    /\ g_hist' = <<>>
    /\ g_ret' = "none"
    /\ g_err' = "none"

IngestLeave ==
    /\ in_pc' = "idle"
    /\ in_doc' = <<>>
    /\ in_filename' = "none"
    /\ in_chunks' = <<>>
    /\ in_vectors' = <<>>
    /\ in_start' = 0
    /\ in_ret' = "none"
    /\ in_err' = "none"

\* the caller calls ingest_pdf(pdf_path, filename)
CallIngest(doc, filename) ==
    /\ NoCallRunning
    /\ ops < MaxOps
    /\ ops' = ops + 1
    /\ log' = <<>>
    /\ IngestEnter(doc, filename)
    /\ RetrieveLeave
    /\ AskLeave
    /\ GenLeave
    /\ UNCHANGED <<ckVars, clientVars, used_model, indexVars, th>>

\* the caller calls retrieve(question, top_k)
CallRetrieve(question, top_k) ==
    /\ NoCallRunning
    /\ ops < MaxOps
    /\ ops' = ops + 1
    /\ log' = <<>>
    /\ RetrieveEnter(question, top_k)
    /\ IngestLeave
    /\ AskLeave
    /\ GenLeave
    /\ UNCHANGED <<ckVars, clientVars, used_model, indexVars, th>>

\* the caller calls ask(question): ask calls retrieve(question)
CallAsk(question) ==
    /\ NoCallRunning
    /\ ops < MaxOps
    /\ ops' = ops + 1
    /\ log' = <<>>
    /\ ask_pc' = "retrieving"
    /\ ask_question' = question
    /\ ask_sources' = <<>>
    /\ ask_calls' = <<"retrieve">>
    /\ ask_ret' = "none"
    /\ ask_err' = "none"
    /\ RetrieveEnter(question, TOP_K)
    /\ IngestLeave
    /\ GenLeave
    /\ UNCHANGED <<ckVars, clientVars, used_model, indexVars, th>>

(***************************************************************************)
(* SpecChunk: chunk_text called on pages of every small length with every  *)
(* small window and overlap, overlap >= chunk_size included.  Pages that   *)
(* reach the chunker are non-empty (extract_text_from_pdf drops the rest). *)
(***************************************************************************)
\* a run whose window does not advance is cut off after this many chunks
ChunkCap == MaxPagesC * MaxLen + 1

PagesOfLens(lens) == [i \in 1..Len(lens) |-> [page |-> i, len |-> lens[i]]]

SmallLens == UNION { [1..n -> 1..MaxLen] : n \in 0..MaxPagesC }

InitChunk ==
    /\ ck_pc = "for"
    /\ ck_pages \in { PagesOfLens(l) : l \in SmallLens }
    /\ ck_W \in 1..MaxW
    /\ ck_O \in 0..MaxO
    /\ ck_pidx = 0
    /\ ck_start = 0
    /\ ck_chunks = <<>>
    /\ api_key = "valid"
    /\ NothingLoaded
    /\ log = <<>>
    /\ IndexEmpty
    /\ IngestIdle
    /\ RetrieveIdle
    /\ AskIdle
    /\ GenIdle
    /\ ThreadsIdle

ChunkWhileCapped == Len(ck_chunks) < ChunkCap /\ ChunkWhile

NextChunk ==
    \/ ChunkFor
    \/ ChunkWhileCapped

SpecChunk == InitChunk /\ [][NextChunk]_vars

(***************************************************************************)
(* SpecGen: generate_answer called on its own, with every credential and    *)
(* every behaviour of the language-model backend.                          *)
(***************************************************************************)
\* retrieved chunks as retrieve builds them: text, page, filename, score
SampleHits ==
    { [text |-> t, page |-> pg, filename |-> "a.pdf", score |-> 1]
        : t \in {<<1, 0, 3>>, <<2, 0, 5>>}, pg \in 1..2 }

SampleChunkLists ==
    UNION { [1..n -> SampleHits] : n \in 0..MaxGenChunks }

InitGen ==
    /\ ChunkIdle
    /\ IndexEmpty
    /\ IngestIdle
    /\ RetrieveIdle
    /\ AskIdle
    /\ api_key \in {"unset", "empty", "placeholder", "valid"}
    \* a client exists already only when an earlier call found a usable key
    /\ \E c \in (IF api_key = "valid" THEN {0, 1} ELSE {0}) :
          /\ handle = [h \in Handles |-> IF h = GenClient THEN c ELSE 0]
          /\ inits = handle
    /\ used_model = NeverUsed
    /\ ThreadsIdle
    /\ log = <<>>
    /\ g_pc = "client"
    /\ g_question = "q"
    /\ g_chunks \in SampleChunkLists
    /\ g_prompt = <<>>
    /\ g_attempt = 0
    /\ g_hist = <<>>
    /\ g_ret = "none"
    /\ g_err = "none"

NextGen ==
    \/ GenGetClient
    \/ GenAttempt

SpecGen == InitGen /\ [][NextGen]_vars

(***************************************************************************)
(* SpecLazy: threads of one process, each making a use of one of the lazy   *)
(* getters, interleaved at the statements of the getter (the test of the    *)
(* global, the construction and assignment, the return).                    *)
(***************************************************************************)
InitLazy ==
    /\ ChunkIdle
    /\ IndexEmpty
    /\ IngestIdle
    /\ RetrieveIdle
    /\ AskIdle
    /\ GenIdle
    /\ api_key \in {"valid", "placeholder"}
    /\ NothingLoaded
    /\ log = <<>>
    /\ th = [t \in Threads |-> [pc |-> "idle", h |-> "none", got |-> 0]]

\* thread t calls _get_model() or _get_client()
LazyCall(t, h) ==
    /\ th[t].pc = "idle"
    /\ th' = [th EXCEPT ![t] = [pc |-> "test", h |-> h, got |-> 0]]
    /\ UNCHANGED <<ckVars, clientVars, log, used_model, indexVars, ingVars, rtVars, askVars, genVars>>

\* if _model is None: (and in _get_client the check of the key that follows)
LazyTest(t) ==
    /\ th[t].pc = "test"
    /\ th' = [th EXCEPT ![t].pc =
                IF ~IsNone(th[t].h) THEN "return"
                ELSE IF th[t].h = GenClient /\ KeyRejected(api_key) THEN "raised"
                ELSE "construct"]
    /\ UNCHANGED <<ckVars, clientVars, log, used_model, indexVars, ingVars, rtVars, askVars, genVars>>

\* _model = SentenceTransformer("all-MiniLM-L6-v2")
LazyConstruct(t) ==
    /\ th[t].pc = "construct"
    /\ Construct(th[t].h)
    /\ th' = [th EXCEPT ![t].pc = "return"]
    /\ UNCHANGED <<ckVars, api_key, log, used_model, indexVars, ingVars, rtVars, askVars, genVars>>

\* return _model
LazyReturn(t) ==
    /\ th[t].pc = "return"
    /\ th' = [th EXCEPT ![t].pc = "done", ![t].got = handle[th[t].h]]
    /\ UNCHANGED <<ckVars, clientVars, log, used_model, indexVars, ingVars, rtVars, askVars, genVars>>

NextLazy ==
    \E t \in Threads :
        \/ \E h \in Handles : LazyCall(t, h)
        \/ LazyTest(t)
        \/ LazyConstruct(t)
        \/ LazyReturn(t)

SpecLazy == InitLazy /\ [][NextLazy]_vars

(***************************************************************************)
(* SpecIngest: one call of ingest_pdf on PDFs long enough for several       *)
(* upsert batches, with every answer of the index backend.                  *)
(***************************************************************************)
\* text lengths that give 1, 500 and 700 chunks
BatchLens ==
    {1, 500 * (CHUNK_SIZE - CHUNK_OVERLAP), 700 * (CHUNK_SIZE - CHUNK_OVERLAP)}

InitIngest ==
    /\ ChunkIdle
    /\ RetrieveIdle
    /\ AskIdle
    /\ GenIdle
    /\ ThreadsIdle
    /\ api_key = "valid"
    /\ NothingLoaded
    /\ log = <<>>
    /\ index_exists \in BOOLEAN
    /\ store = <<>>
    /\ uuids = 0
    /\ in_pc = "extract"
    /\ in_doc \in Docs(BatchLens, MaxPagesBig)
    /\ in_filename = "a.pdf"
    /\ in_chunks = <<>>
    /\ in_vectors = <<>>
    /\ in_start = 0
    /\ in_ret = "none"
    /\ in_err = "none"

NextIngest ==
    \/ IngestExtract
    \/ ChunkFor
    \/ ChunkWhile
    \/ IngestChunked
    \/ IngestEmbed
    \/ IngestEnsureIndex
    \/ IngestUpsert

SpecIngest == InitIngest /\ [][NextIngest]_vars

(***************************************************************************)
(* Spec: the process from its start, making up to MaxOps calls.             *)
(***************************************************************************)
\* the PDFs the process ingests: no page, a blank page, a page of 1 chunk, a
\* page of 2 chunks, and pages 1 and 3 of 1 chunk each around a page of
\* whitespace
ProcessFiles ==
    LET blank == [len |-> 0, ws |-> TRUE]
        spaces == [len |-> 2, ws |-> TRUE]
        short == [len |-> 3, ws |-> FALSE]
        long == [len |-> CHUNK_SIZE - CHUNK_OVERLAP + 10, ws |-> FALSE]
    IN  [ empty_pdf |-> <<>>, blank_pdf |-> <<blank>>, short_pdf |-> <<short>>,
          long_pdf |-> <<long>>, gap_pdf |-> <<short, spaces, short>> ]

ProcessDocs == {ProcessFiles[f] : f \in DOMAIN ProcessFiles}

TopKs == {0 - 1, 0, 1, TOP_K}

Init ==
    /\ ChunkIdle
    /\ IngestIdle
    /\ RetrieveIdle
    /\ AskIdle
    /\ GenIdle
    /\ ThreadsIdle
    /\ IndexEmpty
    /\ NothingLoaded
    /\ log = <<>>
    /\ api_key \in {"unset", "placeholder", "valid"}

Next ==
    \/ \E f \in DOMAIN ProcessFiles : CallIngest(ProcessFiles[f], f)
    \/ \E k \in TopKs : CallRetrieve("q", k)
    \/ CallAsk("q")
    \/ IngestExtract
    \/ ChunkFor
    \/ ChunkWhile
    \/ IngestChunked
    \/ IngestEmbed
    \/ IngestEnsureIndex
    \/ IngestUpsert
    \/ RetrieveEmbed
    \/ RetrieveQuery
    \/ AskRetrieved
    \/ AskGenerated
    \/ GenGetClient
    \/ GenAttempt

Spec == Init /\ [][Next]_vars

(***************************************************************************)
(* chunk_text: the number of chunks and the advance of the window.        *)
(***************************************************************************)
\* the chunks chunk_text has emitted for page number p
ChunksOfPage(p) == SelectSeq(ck_chunks, LAMBDA c : c.page = p)

\* C1 as stated: with 0 <= O < W, every page of length L yields
\* ceil(max(L - O, 1) / (W - O)) chunks
C1_CountAsStated ==
    (ck_pc = "done" /\ ck_O < ck_W) =>
        \A i \in 1..Len(ck_pages) :
            Len(ChunksOfPage(ck_pages[i].page))
                = CeilDiv(Max(ck_pages[i].len - ck_O, 1), ck_W - ck_O)

\* C1 amended: with 0 <= O < W, every page of length L >= 1 yields
\* ceil(L / (W - O)) chunks (one per window start 0, S, 2S, ... below L)
C1_CountByStart ==
    (ck_pc = "done" /\ ck_O < ck_W) =>
        \A i \in 1..Len(ck_pages) :
            Len(ChunksOfPage(ck_pages[i].page))
                = CeilDiv(ck_pages[i].len, ck_W - ck_O)

\* a finished run over two pages where the two counts differ on a page
C1_Witness ==
    /\ ck_pc = "done"
    /\ ck_O < ck_W
    /\ ck_O > 0
    /\ Len(ck_pages) = 2
    /\ \E i \in 1..Len(ck_pages) :
          /\ Len(ChunksOfPage(ck_pages[i].page)) > 1
          /\ CeilDiv(ck_pages[i].len, ck_W - ck_O)
                # CeilDiv(Max(ck_pages[i].len - ck_O, 1), ck_W - ck_O)

\* C2 as stated: with overlap >= chunk_size on a non-empty page chunk_text
\* neither enters its window loop nor returns: it has raised a configuration
\* error
C2_FailsFast ==
    (ck_O >= ck_W /\ ck_pages # <<>> /\ ck_pc # "for") => ck_pc = "raised"

\* C2, the parenthesis: an iteration of the window loop moves start forward
C2_StartAdvances ==
    [][(ck_pc = "while" /\ ck_chunks' # ck_chunks) => ck_start' > ck_start]_vars

(***************************************************************************)
(* generate_answer: the retry loop.                                        *)
(***************************************************************************)
GenEnded == g_pc \in {"returned", "raised"}

\* C3: when the backend signals rate-limiting on the first two calls,
\* generate_answer makes a third call, and when that one answers it returns
\* that answer's text after exactly 3 calls, having slept 20 s after the
\* first failure and 40 s after the second
C3_TwoRateLimitsThenAnswer ==
    (GenEnded /\ Len(g_hist) >= 2
        /\ g_hist[1] = "rate_limit" /\ g_hist[2] = "rate_limit") =>
        /\ Len(g_hist) >= 3
        /\ g_hist[3] = "ok" =>
             /\ g_pc = "returned"
             /\ g_ret = [text_of_call |-> 3, prompt |-> g_prompt]
             /\ log = << LlmCall(1, "rate_limit"), Sleep(20),
                         LlmCall(2, "rate_limit"), Sleep(40),
                         LlmCall(3, "ok") >>

C3_Witness ==
    /\ g_pc = "returned"
    /\ g_hist = <<"rate_limit", "rate_limit", "ok">>

C5_OtherFailureRaisesAtOnce ==
    \A i \in 1..Len(g_hist) :
        g_hist[i] \in {"other", "other_with_429"} =>
            /\ i = Len(g_hist)
            /\ log[Len(log)] = LlmCall(i, g_hist[i])
            /\ g_pc = "raised"
            /\ g_err = g_hist[i]
            /\ g_ret = "none"

\* what does hold of C5: a failure whose message does not hold "429" is
\* raised at once
C5_FailureWithout429RaisesAtOnce ==
    \A i \in 1..Len(g_hist) :
        g_hist[i] = "other" =>
            /\ i = Len(g_hist)
            /\ log[Len(log)] = LlmCall(i, g_hist[i])
            /\ g_pc = "raised"
            /\ g_err = g_hist[i]
            /\ g_ret = "none"

(***************************************************************************)
(* The lazy globals under concurrent first use.                            *)
(***************************************************************************)
\* C6 as stated: whatever the interleaving of the threads, each lazy global
\* is constructed at most once
C6_AtMostOneInit ==
    \A h \in Handles : inits[h] <= 1

(***************************************************************************)
(* ingest_pdf: the upsert batches and the empty document.                  *)
(***************************************************************************)
Upserts == EventsOf("upsert")

BatchSize(u) == u.hi - u.lo

\* C9: every upsert call carries at most 500 records; and when ingest_pdf
\* returns, having sent its n records, it has made ceil(n / 500) upsert
\* calls, each but the last with exactly 500, every record is in exactly one
\* call, the index holds exactly the n records, and 1200 records went out as
\* 500, 500, 200
C9_UpsertBatches ==
    /\ \A k \in 1..Len(Upserts) : BatchSize(Upserts[k]) <= 500
    /\ in_pc = "returned" =>
          LET n == Len(in_vectors)
          IN  /\ Len(Upserts) = CeilDiv(n, 500)
              /\ \A k \in 1..(Len(Upserts) - 1) : BatchSize(Upserts[k]) = 500
              /\ \A i \in 1..n :
                    Cardinality({k \in 1..Len(Upserts) :
                        Upserts[k].lo < i /\ i <= Upserts[k].hi}) = 1
              /\ store = in_vectors
              /\ n = 1200 =>
                    [k \in 1..Len(Upserts) |-> BatchSize(Upserts[k])]
                        = <<500, 500, 200>>

C9_Witness ==
    /\ in_pc = "returned"
    /\ Len(in_vectors) = 1200
    /\ Len(Upserts) = 3
    /\ Len(store) = 1200

\* C10: when no page is extracted, or chunking has yielded no chunk,
\* ingest_pdf returns 0 and makes no embedding, index-creation or upsert
\* call
C10_EmptyDocument ==
    (in_pc # "idle"
        /\ \/ Len(extract_text_from_pdf(in_doc)) = 0
           \/ in_pc \notin {"extract", "chunking"} /\ Len(in_chunks) = 0) =>
        /\ in_pc \in {"extract", "returned"}
        /\ in_pc = "returned" => in_ret = 0
        /\ log = <<>>
        /\ store = <<>>
        /\ inits[IngModel] = 0

C10_Witness ==
    /\ in_pc = "returned"
    /\ Len(in_doc) = 2
    /\ Len(extract_text_from_pdf(in_doc)) = 0
    /\ in_ret = 0
    /\ log = <<>>

(***************************************************************************)
(* The process: the embedding model and the credential.                    *)
(***************************************************************************)
\* C7 as stated: over any sequence of ingest_pdf and retrieve calls of one
\* process, the embedding model is constructed once, on first use, and
\* ingestion and retrieval encode with that one object
C7_OneModelShared ==
    /\ ModelsLoaded <= 1
    /\ (used_model["ingest_pdf"] # 0 \/ used_model["retrieve"] # 0) =>
          ModelsLoaded = 1
    /\ (used_model["ingest_pdf"] # 0 /\ used_model["retrieve"] # 0) =>
          used_model["ingest_pdf"] = used_model["retrieve"]

\* C8 as stated: when the credential is missing or the placeholder, ask has
\* done no backend I/O (no embedding, no index query, no language-model
\* call) when it raises the configuration error
C8_FailsBeforeIO ==
    (ask_pc = "raised" /\ ask_err = "ValueError") =>
        /\ KeyRejected(api_key)
        /\ log = <<>>
(***************************************************************************)
(* ingest_pdf: an upsert that fails.                                       *)
(***************************************************************************)
\* the batches the running ingest_pdf has had stored
Persisted == SelectSeq(Upserts, LAMBDA e : e.ok)

\* C11: when the upsert of batch j fails, the index holds exactly batches
\* 1..j-1 (every record before the failed batch, none of it or after it),
\* the failed upsert is the last call ingest_pdf makes to the backend (no
\* later batch is sent), and ingest_pdf ends by raising with no count
\* returned.
C11_FailedUpsertStops ==
    \A j \in 1..Len(Upserts) :
        ~Upserts[j].ok =>
            /\ j = Len(Upserts)
            /\ log[Len(log)] = Upserts[j]
            /\ \A i \in 1..(j - 1) : Upserts[i].ok
            /\ store = SubSeq(in_vectors, 1, Upserts[j].lo)
            /\ Upserts[j].lo = (j - 1) * BATCH_SIZE
            /\ in_pc = "raised"
            /\ in_err = "upsert failed"
            /\ in_ret = "none"

\* the third batch of three fails after two batches were stored
C11_Witness ==
    /\ in_pc = "raised"
    /\ Len(Upserts) = 3
    /\ ~Upserts[3].ok
    /\ Len(store) = 2 * BATCH_SIZE
    /\ Len(in_vectors) > 2 * BATCH_SIZE

(***************************************************************************)
(* retrieve: what it returns and what it asks of the index.                *)
(***************************************************************************)
\* C12: retrieve returns at most top_k results, in non-increasing order of
\* score, whatever the index answers the query with (stated for the calls
\* with top_k >= 1).
C12_AtMostTopKSorted ==
    (rt_pc = "returned" /\ rt_top_k >= 1) =>
        /\ Len(rt_ret) <= rt_top_k
        /\ \A i \in 1..(Len(rt_ret) - 1) : rt_ret[i].score >= rt_ret[i + 1].score

\* C13: no query with a top_k <= 0 is sent to the index: retrieve called
\* with such a top_k raises before the query.
C13_NonPositiveTopKRejected ==
    /\ \A i \in 1..Len(log) : log[i].op = "query" => log[i].top_k >= 1
    /\ (rt_pc \in {"returned", "raised"} /\ rt_top_k <= 0) =>
            (rt_pc = "raised" /\ Count("query") = 0)

(***************************************************************************)
(* ask: one retrieval, then one generation over the retrieved sources.     *)
(***************************************************************************)
\* C14: ask calls retrieve once and then generate_answer once, never in
\* another order or number; the sources it returns are the sequence that
\* retrieve returned and that generate_answer was given, in the same order,
\* and the answer is what generate_answer returned; when retrieve raises,
\* generate_answer is not called (and no call to the language model is
\* made) and ask raises the same error.
C14_RetrieveThenGenerate ==
    /\ ask_pc = "retrieving" => (ask_calls = <<"retrieve">> /\ g_pc = "idle")
    /\ ask_pc = "generating" =>
            (ask_calls = <<"retrieve", "generate_answer">> /\ g_chunks = ask_sources)
    /\ ask_pc = "returned" =>
            /\ ask_calls = <<"retrieve", "generate_answer">>
            /\ Count("embed") = 1
            /\ Count("query") = 1
            /\ ask_ret.sources = rt_ret
            /\ ask_ret.sources = g_chunks
            /\ ask_ret.answer = g_ret
            /\ g_question = ask_question
    /\ (ask_pc = "raised" /\ rt_pc = "raised") =>
            /\ ask_calls = <<"retrieve">>
            /\ g_pc = "idle"
            /\ Count("llm") = 0
            /\ ask_err = rt_err

\* ask has returned two sources that differ, so that their order shows
C14_Witness ==
    /\ ask_pc = "returned"
    /\ Len(ask_ret.sources) = 2
    /\ ask_ret.sources[1] # ask_ret.sources[2]
    /\ Count("llm") >= 1

\* a retrieval that raised inside ask
C14_WitnessRetrievalRaises ==
    /\ ask_pc = "raised"
    /\ rt_pc = "raised"

(***************************************************************************)
(* _ensure_index: the statuses of POST /index/create.                      *)
(***************************************************************************)
\* the status of the index creation call of the running ingest_pdf
Created == EventsOf("create_index")

\* _ensure_index raised: ingest_pdf ended with its HTTPError
EnsureIndexRaised == in_pc = "raised" /\ in_err = "HTTPError"

C15_WitnessNotModified ==
    /\ Len(Created) = 1
    /\ Created[1].status = 304
    /\ ~index_exists
    /\ in_pc = "upsert"

(***************************************************************************)
(* _build_prompt: the parts of the prompt and their order.                 *)
(***************************************************************************)
\* the places of the prompt that hold a part of the given kinds
PlacesOf(kinds) == {i \in 1..Len(g_prompt) : g_prompt[i].seg \in kinds}

\* the blocks of the prompt: one per chunk, numbered 1..n in input order,
\* a header with page and filename and then the chunk text, a blank line
\* between two blocks; the first block at place first
BlocksFrom(first) ==
    \A i \in 1..Len(g_chunks) :
        LET at == first + 3 * (i - 1)
        IN  /\ g_prompt[at] = [seg |-> "header", n |-> i, page |-> g_chunks[i].page,
                                filename |-> g_chunks[i].filename]
            /\ g_prompt[at + 1] = [seg |-> "text", text |-> g_chunks[i].text]
            /\ i < Len(g_chunks) => g_prompt[at + 2] = Blank

\* C16 as stated: the prompt is the chunk blocks, then the instruction,
\* then the question.
C16_BlocksThenInstruction ==
    g_prompt # <<>> =>
        /\ BlocksFrom(1)
        /\ PlacesOf({"instruction"}) # {}
        /\ PlacesOf({"question"}) # {}
        /\ \A b \in PlacesOf({"header", "text"}), i \in PlacesOf({"instruction"}) : b < i
        /\ \A i \in PlacesOf({"instruction"}), q \in PlacesOf({"question"}) : i < q

\* C16: the prompt is, in this order: the instruction to answer only from
\* the context and to say so when the answer is absent; the context, one
\* block per chunk numbered 1..n in input order (header with page and
\* filename, then the chunk text), blocks separated by a blank line; then
\* the question (and the cue for the answer).
C16_InstructionThenBlocks ==
    g_prompt # <<>> =>
        LET n == Len(g_chunks)
            last == Len(g_prompt)
        IN  /\ last = 3 + (IF n = 0 THEN 0 ELSE 3 * n - 1) + 4
            /\ g_prompt[1] = [seg |-> "instruction"]
            /\ g_prompt[2] = Blank
            /\ g_prompt[3] = [seg |-> "context"]
            /\ BlocksFrom(4)
            /\ g_prompt[last - 3] = Blank
            /\ g_prompt[last - 2] = [seg |-> "question", question |-> g_question]
            /\ g_prompt[last - 1] = Blank
            /\ g_prompt[last] = [seg |-> "answer"]

\* a prompt built over two chunks that differ
C16_Witness ==
    /\ g_prompt # <<>>
    /\ Len(g_chunks) = 2
    /\ g_chunks[1] # g_chunks[2]
    /\ g_chunks[1].page # g_chunks[2].page

(***************************************************************************)
(* From a page of an ingested PDF to a retrieved result.                   *)
(***************************************************************************)
\* a text with a page number and a filename is a chunk of that page of that
\* PDF: the PDF was ingested under the filename, the page is one of its
\* pages with text, and the text is a non-empty slice of the text of that
\* page that chunk_text cuts (it starts at a multiple of the stride)
ChunkOfFile(text, page, filename) ==
    /\ filename \in DOMAIN ProcessFiles
    /\ LET doc == ProcessFiles[filename]
       IN  /\ page \in 1..Len(doc)
           /\ ~doc[page].ws
           /\ text = <<page, text[2], text[3]>>
           /\ text[2] % (CHUNK_SIZE - CHUNK_OVERLAP) = 0
           /\ text[2] < text[3]
           /\ text[3] = Min(text[2] + CHUNK_SIZE, doc[page].len)

\* the results of the running retrieve that come from a stored record
FromStore == {i \in 1..Len(rt_ret) : rt_ret[i].filename # ""}

\* C17: every record stored by ingest_pdf holds the text of a chunk, the
\* number of the page of the PDF that the chunk was cut from and the
\* filename the PDF was ingested under; and every result of a later
\* retrieve for a stored record carries the text, page and filename of that
\* record unchanged.
C17_ResultTracesToPage ==
    /\ \A k \in 1..Len(store) :
            ChunkOfFile(store[k].meta.text, store[k].meta.page, store[k].meta.filename)
    /\ rt_pc = "returned" =>
            \A i \in FromStore :
                /\ \E k \in 1..Len(store) :
                        store[k].meta = [text |-> rt_ret[i].text, page |-> rt_ret[i].page,
                                         filename |-> rt_ret[i].filename]
                /\ ChunkOfFile(rt_ret[i].text, rt_ret[i].page, rt_ret[i].filename)

\* a retrieve after an ingestion of the PDF with pages 1 and 3 of text has
\* returned the chunk of page 3
C17_Witness ==
    /\ rt_pc = "returned"
    /\ \E i \in FromStore :
            /\ rt_ret[i].page = 3
            /\ rt_ret[i].filename = "gap_pdf"
            /\ rt_ret[i].text = <<3, 0, 3>>

(***************************************************************************)
(* chunk_text: where the chunks start and end, and their order.            *)
(***************************************************************************)
\* the place in the input of the page numbered p
PlaceOfPage(p) == CHOOSE i \in 1..Len(ck_pages) : ck_pages[i].page = p

\* C18: with 0 <= O < W, the k-th chunk (k = 0, 1, ...) of a page of length
\* L is the non-empty slice that starts at offset k * (W - O) and ends at
\* most W further (at the end of the window or of the text); when
\* chunk_text is done every page has a first chunk, at offset 0, and the
\* window of its last chunk ends at L or beyond; the chunks are emitted in
\* the order of the input pages and by increasing offset within a page.
C18_ChunkSlices ==
    (ck_O < ck_W /\ ck_pc \in {"for", "while", "done"}) =>
        /\ \A i \in 1..Len(ck_pages) :
              LET cs == ChunksOfPage(ck_pages[i].page)
                  L == ck_pages[i].len
              IN  /\ \A k \in 1..Len(cs) :
                        /\ cs[k].lo = (k - 1) * (ck_W - ck_O)
                        /\ cs[k].lo < cs[k].hi
                        /\ cs[k].hi <= L
                        /\ cs[k].hi - cs[k].lo <= ck_W
                        /\ cs[k].hi = Min(cs[k].lo + ck_W, L)
                  /\ ck_pc = "done" =>
                        /\ Len(cs) >= 1
                        /\ cs[1].lo = 0
                        /\ cs[Len(cs)].lo + ck_W >= L
        /\ \A a, b \in 1..Len(ck_chunks) :
              a < b =>
                \/ PlaceOfPage(ck_chunks[a].page) < PlaceOfPage(ck_chunks[b].page)
                \/ /\ ck_chunks[a].page = ck_chunks[b].page
                   /\ ck_chunks[a].lo < ck_chunks[b].lo

\* chunk_text is done with two pages, an overlap and three chunks or more
\* of one page, the last of them shorter than the window
C18_Witness ==
    /\ ck_pc = "done"
    /\ 0 < ck_O
    /\ ck_O < ck_W
    /\ Len(ck_pages) = 2
    /\ \E i \in 1..Len(ck_pages) :
          LET cs == ChunksOfPage(ck_pages[i].page)
          IN  /\ Len(cs) >= 3
              /\ cs[Len(cs)].hi - cs[Len(cs)].lo < ck_W

(***************************************************************************)
(* ingest_pdf: the order of the backend calls and the count returned.      *)
(***************************************************************************)
RECURSIVE RecordsSent(_)
\* the number of records in a sequence of upsert calls
RecordsSent(us) ==
    IF us = <<>> THEN 0 ELSE BatchSize(Head(us)) + RecordsSent(Tail(us))

\* C19: when ingest_pdf returns a count other than 0, its backend calls
\* were, in this order: one embedding call over all the chunk texts, one
\* index creation call, then the upsert calls, all accepted; and the
\* count returned is the number of chunks, which is the number of records
\* sent over all the upsert calls.
C19_CallOrderAndCount ==
    (in_pc = "returned" /\ in_ret # 0) =>
        /\ Len(in_chunks) >= 1
        /\ Len(log) >= 3
        /\ log[1].op = "embed"
        /\ log[1].n = Len(in_chunks)
        /\ log[2].op = "create_index"
        /\ \A i \in 3..Len(log) : log[i].op = "upsert" /\ log[i].ok
        /\ in_ret = Len(in_chunks)
        /\ in_ret = RecordsSent(Upserts)

\* an ingestion of 1400 chunks has returned after three upsert calls
C19_Witness ==
    /\ in_pc = "returned"
    /\ in_ret = 1400
    /\ Len(log) = 5
    /\ Len(Upserts) = 3

C20_WitnessRaises ==
    /\ g_pc = "raised"
    /\ Len(g_hist) = 3
    /\ g_hist[3] = "other"

====
